---- MODULE Spec2Model ----
(***************************************************************************)
(* The photo services of src/backend/server.js (POST /api/create) and of   *)
(* src/unnamed/part_000 (POST /api/upload, POST /api/enhance/{iphone17pro, *)
(* monaco, full}) as one state machine: requests arrive, pass the multer   *)
(* upload middleware, run their route handler up to each await, and resume *)
(* when the outbound axios call settles.                                   *)
(*                                                                         *)
(* Text is a sequence of tokens (each a TLA+ string): file names, mime     *)
(* types and user prompts are sequences of one-character tokens, the fixed *)
(* prompt templates are single tokens.  A JavaScript value that may be     *)
(* undefined is a record [t, s].                                           *)
(***************************************************************************)
EXTENDS Integers, Sequences, FiniteSets, TLC

\* ---------------------------------------------------------------- bounds
NumReq == 2
MaxTime == 1
MaxParts == 3
MaxPromptLen == 1

Req == 1..NumReq

\* ------------------------------------------------------- JavaScript values
Undefined == [t |-> "undefined", s |-> <<>>]
Str(s) == [t |-> "string", s |-> s]

\* JavaScript truthiness of undefined | string: !!v
Truthy(v) == v.t = "string" /\ v.s # <<>>

\* `${v}` in a template literal
Interpolate(v) == IF v.t = "undefined" THEN <<"undefined">> ELSE v.s

IsWhiteSpace(c) == c \in {" ", "\t", "\n"}

RECURSIVE TrimStart(_)
TrimStart(s) ==
  IF s # <<>> /\ IsWhiteSpace(Head(s)) THEN TrimStart(Tail(s)) ELSE s

RECURSIVE TrimEnd(_)
TrimEnd(s) ==
  IF s # <<>> /\ IsWhiteSpace(s[Len(s)]) THEN TrimEnd(SubSeq(s, 1, Len(s) - 1)) ELSE s

\* String.prototype.trim
Trim(s) == TrimEnd(TrimStart(s))

\* s contains sub as a contiguous run: RegExp.test of a literal, String.includes
Contains(s, sub) ==
  \E i \in 1..(Len(s) - Len(sub) + 1) : SubSeq(s, i, i + Len(sub) - 1) = sub

\* String.prototype.toLowerCase on the letters file names use here
LowerChar(c) ==
  CASE c = "J" -> "j" [] c = "P" -> "p" [] c = "G" -> "g" [] c = "E" -> "e"
    [] c = "N" -> "n" [] c = "W" -> "w" [] c = "B" -> "b" [] OTHER -> c

ToLowerCase(s) == [i \in 1..Len(s) |-> LowerChar(s[i])]

\* path.extname: from the last "." of the name to its end; "" when the name
\* has no "." or only a leading one
LastDot(s) ==
  IF \E i \in 1..Len(s) : s[i] = "."
  THEN CHOOSE i \in 1..Len(s) : s[i] = "." /\ \A j \in (i + 1)..Len(s) : s[j] # "."
  ELSE 0

extname(s) == IF LastDot(s) <= 1 THEN <<>> ELSE SubSeq(s, LastDot(s), Len(s))

\* ------------------------------------------------------------ upload config
\* limits: { fileSize: 20 * 1024 * 1024 }
FileSizeLimit == 20 * 1024 * 1024

\* const allowedTypes = /jpeg|jpg|png|webp/
allowedTypes ==
  { <<"j", "p", "e", "g">>, <<"j", "p", "g">>, <<"p", "n", "g">>, <<"w", "e", "b", "p">> }

allowedTypesTest(s) == \E alt \in allowedTypes : Contains(s, alt)

\* fileFilter: TRUE is cb(null, true), FALSE is cb(new Error(...))
fileFilter(file) ==
  LET extnameOk == allowedTypesTest(ToLowerCase(extname(file.originalname)))
      mimetypeOk == allowedTypesTest(file.mimetype)
  IN  extnameOk /\ mimetypeOk


\* PartError as it would be with no fileSize limit enforced
PartErrorNoLimit(files, i, maxCount) ==
  IF i > maxCount THEN "LIMIT_UNEXPECTED_FILE"
  ELSE IF ~fileFilter(files[i]) THEN "FILE_FILTER"
  ELSE "none"

\* What multer does with the i-th file part of the field, in the order it
\* does it: the field's maxCount (upload.single: 1, upload.array('images', 2):
\* 2), then fileFilter, then the fileSize limit while the part is stored.
PartError(files, i, maxCount) ==
  IF i > maxCount THEN "LIMIT_UNEXPECTED_FILE"
  ELSE IF ~fileFilter(files[i]) THEN "FILE_FILTER"
  ELSE IF files[i].size > FileSizeLimit THEN "LIMIT_FILE_SIZE"
  ELSE "none"

\* The upload middleware on a request's file parts: the first part in error
\* aborts the upload (the parts stored so far are removed and the error goes
\* to next(err)); otherwise every part is stored and becomes req.files.
upload(files, maxCount) ==
  LET bad == { i \in 1..Len(files) : PartError(files, i, maxCount) # "none" }
  IN  IF bad = {}
      THEN [error |-> "none", files |-> files]
      ELSE LET i == CHOOSE k \in bad : \A j \in bad : k <= j
           IN  [error |-> PartError(files, i, maxCount), files |-> <<>>]

\* upload.single('image') | upload.array('images', 2)
maxCount(route) == IF route = "create" THEN 2 ELSE 1

\* ------------------------------------------------------------------ inputs
Routes == { "upload", "iphone17pro", "monaco", "full", "create" }

\* a .JPG of exactly the size limit, declared image/jpeg
PartOk ==
  [ originalname |-> <<"a", ".", "J", "P", "G">>,
    mimetype |-> <<"i", "m", "a", "g", "e", "/", "j", "p", "e", "g">>,
    size |-> FileSizeLimit ]
\* a .gif declared image/png
PartGifAsPng ==
  [ originalname |-> <<"a", ".", "g", "i", "f">>,
    mimetype |-> <<"i", "m", "a", "g", "e", "/", "p", "n", "g">>,
    size |-> 1 ]
\* a .gif declared image/gif
PartGif ==
  [ originalname |-> <<"a", ".", "g", "i", "f">>,
    mimetype |-> <<"i", "m", "a", "g", "e", "/", "g", "i", "f">>,
    size |-> 1 ]
\* a .webp one byte over the size limit
PartBig ==
  [ originalname |-> <<"b", ".", "w", "e", "b", "p">>,
    mimetype |-> <<"i", "m", "a", "g", "e", "/", "w", "e", "b", "p">>,
    size |-> FileSizeLimit + 1 ]
\* a .pngx declared image/png: the extension is none of the four
PartPngx ==
  [ originalname |-> <<"a", ".", "p", "n", "g", "x">>,
    mimetype |-> <<"i", "m", "a", "g", "e", "/", "p", "n", "g">>,
    size |-> 1 ]

Parts == { PartOk, PartGifAsPng, PartGif, PartBig, PartPngx }

\* the four extensions the service names as allowed
AllowedExt ==
  { <<".", "j", "p", "e", "g">>, <<".", "j", "p", "g">>, <<".", "p", "n", "g">>,
    <<".", "w", "e", "b", "p">> }

\* The file parts of one request: none, or up to MaxParts of them, any part
\* last (multer stops at the first part it rejects, so what follows it has no
\* effect).
FileLists ==
  { <<>> } \cup
  { [i \in 1..n |-> IF i < n THEN PartOk ELSE p] : n \in 1..MaxParts, p \in Parts }

Chars == { " ", "a" }

RECURSIVE StringsUpTo(_)
StringsUpTo(n) ==
  IF n = 0 THEN { <<>> }
  ELSE StringsUpTo(n - 1) \cup
       { Append(s, c) : s \in { t \in StringsUpTo(n - 1) : Len(t) = n - 1 }, c \in Chars }

\* req.body.prompt: absent, or a text field
Prompts == { Undefined } \cup { Str(s) : s \in StringsUpTo(MaxPromptLen) }

NoRequest == [route |-> "none", files |-> <<>>, prompt |-> Undefined]

\* ------------------------------------------------------------------- state
VARIABLES
  req,      \* req[r]: the request as sent: route, file parts, prompt field
  pc,       \* pc[r]: where request r stands
  calls,    \* calls[r]: the outbound provider calls issued for r, in order
  error,    \* error[r]: the rejection the handler's catch received, if any
  resp,     \* resp[r]: the responses sent for r, in order
  uploads,  \* the uploads directory: the stored files
  outputs,  \* the outputs directory: file name -> bytes
  now,      \* Date.now(), in milliseconds from the start
  env,      \* process.env.OPENAI_API_KEY
  health,   \* the answers GET /api/health has given, in order
  flex,     \* the state of the single-photo page (Flex Photo)
  polaroid, \* the state of the two-photo page (Polaroid Creator)
  wire      \* wire[page]: the request the page last posted and whether it is open

serverVars == <<req, pc, calls, error, resp, uploads, outputs, now>>

pageVars == <<flex, polaroid, wire>>

vars == <<req, pc, calls, error, resp, uploads, outputs, now, env, health, flex, polaroid, wire>>

NoError == [response |-> FALSE, providerMessage |-> Undefined, message |-> <<>>]

\* process.env.OPENAI_API_KEY: unset, set to the empty string, or set to a key
ApiKeys == { Undefined, Str(<<>>), Str(<<"sk-key">>) }

\* null, a File the user dropped, and URL.createObjectURL(file)
Null == [t |-> "null", s |-> <<>>]

File(name) == [t |-> "file", s |-> <<name>>]

createObjectURL(file) == [t |-> "url", s |-> <<"blob:", file.s[1]>>]

\* useState(...) of the single-photo page
FlexInit ==
  [selectedFile |-> Null, preview |-> Null, processing |-> FALSE,
   result |-> Null, error |-> Null, mode |-> "full"]

\* useState(...) of the two-photo page
NoPhoto == [file |-> Null, preview |-> Null]

PolaroidInit ==
  [photo1 |-> NoPhoto, photo2 |-> NoPhoto, prompt |-> Str(<<>>),
   processing |-> FALSE, resultUrl |-> Null, error |-> Null]

Pages == { "flex", "polaroid" }

\* no request posted yet
NoPost == [open |-> FALSE, sent |-> Null]

\* the server and both pages as they start; the key is configured
ServerInit ==
  /\ req = [r \in Req |-> NoRequest]
  /\ pc = [r \in Req |-> "idle"]
  /\ calls = [r \in Req |-> <<>>]
  /\ error = [r \in Req |-> NoError]
  /\ resp = [r \in Req |-> <<>>]
  /\ uploads = {}
  /\ outputs = [n \in {} |-> <<>>]
  /\ now = 0
  /\ health = <<>>

PagesInit ==
  /\ flex = FlexInit
  /\ polaroid = PolaroidInit
  /\ wire = [p \in Pages |-> NoPost]

Init ==
  /\ ServerInit
  /\ env = Str(<<"sk-key">>)
  /\ PagesInit


\* --------------------------------------------------------- prompt templates
IPHONE_17_PRO_STYLE_PROMPT ==
  <<"Transform this photo to match the iPhone 17 Pro camera style ...">>

MONACO_SUPERCAR_PROMPT ==
  <<"Replace the background of this photo with a luxurious Monaco setting ...">>

FULL_PROMPT ==
  MONACO_SUPERCAR_PROMPT \o <<"\n\nAdditionally, apply iPhone 17 Pro camera processing: ...">>

\* buildPolaroidPrompt: the template with ${userPrompt} in its middle
buildPolaroidPrompt(userPrompt) ==
  <<"Create an authentic vintage Polaroid photograph ... WHAT THEY'RE DOING:\n">>
    \o Interpolate(userPrompt)
    \o <<"\n\nPRESERVE BOTH PEOPLE: ... between these two people.">>

\* the prompt argument of the route's provider function
modePrompt(request) ==
  CASE request.route = "iphone17pro" -> IPHONE_17_PRO_STYLE_PROMPT
    [] request.route = "monaco" -> MONACO_SUPERCAR_PROMPT
    [] request.route = "full" -> FULL_PROMPT
    [] OTHER -> buildPolaroidPrompt(request.prompt)

\* the text between the prompt and the description in the generation call
descriptionLabel(route) ==
  IF route = "create"
  THEN <<"\n\nDETAILED DESCRIPTION OF THE TWO PEOPLE TO INCLUDE:\n">>
  ELSE <<"\n\nSubject to preserve: ">>

\* generationPrompt as it would be if the description replaced the prompt
generationPromptReplaced(route, prompt, description) == Interpolate(description)

\* `${fullPrompt}\n\nDETAILED DESCRIPTION ...:\n${peopleDescription}` and
\* `${prompt}\n\nSubject to preserve: ${imageDescription}`
generationPrompt(route, prompt, description) ==
  prompt \o descriptionLabel(route) \o Interpolate(description)

\* ----------------------------------------------------------- provider calls
\* A call record: what was sent (endpoint, prompt, timeout) and how the
\* promise settled (outcome: pending, resolved, rejected; result: the text or
\* base64 payload read from a resolved call's body, undefined if it has none).
\* axios without a timeout option never times a request out
NoTimeout == 0
\* timeout: 120000
GenerationTimeout == 120000

AnalysisText(route) ==
  IF route = "create"
  THEN <<"Analyze these two photos. For each person, describe in detail: ...">>
  ELSE <<"Analyze this image in detail. Describe the subject, ...">>

\* the axios.post of callOpenAIImageEdit
EditCall(prompt) ==
  [endpoint |-> "images/edits", prompt |-> prompt, timeout |-> GenerationTimeout,
   outcome |-> "pending", result |-> Undefined]

\* the first axios.post of generateTwoPeoplePolaroid / callOpenAIVisionAndGenerate
AnalysisCall(route) ==
  [endpoint |-> "chat/completions", prompt |-> AnalysisText(route), timeout |-> NoTimeout,
   outcome |-> "pending", result |-> Undefined]

\* their second axios.post
GenerationCall(prompt) ==
  [endpoint |-> "images/generations", prompt |-> prompt, timeout |-> GenerationTimeout,
   outcome |-> "pending", result |-> Undefined]

\* What the provider may answer.  A 2xx chat/completions body:
Contents == { Undefined, Str(<<>>), Str(<<"Person 1: ... Person 2: ...">>) }

AnalysisBodies ==
  { [hasChoices |-> FALSE, choices |-> <<>>], [hasChoices |-> TRUE, choices |-> <<>>] }
  \cup { [hasChoices |-> TRUE, choices |-> <<[content |-> c]>>] : c \in Contents }

\* A 2xx images body: b64_json "QQ==" is the byte 65, "QUI=" the bytes 65 66
Payloads == { <<"Q", "Q", "=", "=">>, <<"Q", "U", "I", "=">> }

ImageBodies ==
  { [hasData |-> FALSE, data |-> <<>>], [hasData |-> TRUE, data |-> <<>>],
    [hasData |-> TRUE, data |-> <<[b64_json |-> Undefined]>>] }
  \cup { [hasData |-> TRUE, data |-> <<[b64_json |-> Str(p)]>>] : p \in Payloads }

\* The rejections of axios.post: a non-2xx response, whose body may carry
\* error.message; a network failure; the timeout.
HttpErrors ==
  { [response |-> TRUE, providerMessage |-> m,
     message |-> <<"Request failed with status code 429">>] :
      m \in { Undefined, Str(<<>>), Str(<<"Rate limit reached">>) } }

NetworkError ==
  [response |-> FALSE, providerMessage |-> Undefined, message |-> <<"socket hang up">>]

TimeoutError ==
  [response |-> FALSE, providerMessage |-> Undefined,
   message |-> <<"timeout of 120000ms exceeded">>]

ProviderErrors == HttpErrors \cup { NetworkError }

\* what the handler's own code throws
TypeErrorOf(what) ==
  [response |-> FALSE, providerMessage |-> Undefined,
   message |-> <<"TypeError", what>>]

\* ------------------------------------------------------------ base64 decode
B64Value(c) ==
  CASE c = "Q" -> 16 [] c = "U" -> 20 [] c = "I" -> 8 [] c = "A" -> 0 [] OTHER -> 0

\* Buffer.from(s, 'base64') of one four-character group
Base64Decode(s) ==
  LET n == B64Value(s[1]) * 262144 + B64Value(s[2]) * 4096
             + B64Value(s[3]) * 64 + B64Value(s[4])
      pad == Cardinality({ i \in 1..4 : s[i] = "=" })
      bytes == << n \div 65536, (n \div 256) % 256, n % 256 >>
  IN  SubSeq(bytes, 1, 3 - pad)

\* --------------------------------------------------------------- responses
NoFile == [prefix |-> "", ts |-> 0 - 1]

Response(status, json, success, text, det, out) ==
  [status |-> status, json |-> json, success |-> success, error |-> text,
   details |-> det, out |-> out]

\* Express's default error handler, which next(err) of the upload reaches:
\* no route handler runs, the status is 500 and the body is not JSON
MulterMessage(code) ==
  CASE code = "LIMIT_UNEXPECTED_FILE" -> <<"Unexpected field">>
    [] code = "LIMIT_FILE_SIZE" -> <<"File too large">>
    [] OTHER -> <<"Only image files (jpeg, jpg, png, webp) are allowed">>

DefaultErrorResponse(code) ==
  Response(500, FALSE, FALSE, MulterMessage(code), Undefined, NoFile)

BadRequest(text) == Response(400, TRUE, FALSE, text, Undefined, NoFile)

FailureText(route) ==
  CASE route = "create" -> <<"Failed to create image">>
    [] route = "iphone17pro" -> <<"Failed to enhance image">>
    [] route = "monaco" -> <<"Failed to apply Monaco background">>
    [] OTHER -> <<"Failed to process image">>

OutputPrefix(route) ==
  CASE route = "create" -> "polaroid"
    [] route = "iphone17pro" -> "iphone17pro"
    [] route = "monaco" -> "monaco"
    [] OTHER -> "flex-photo"

\* details as it would be if only the local exception message were reported
detailsLocalOnly(e) == Str(e.message)

\* error.response?.data?.error?.message || error.message
details(e) ==
  IF e.response /\ Truthy(e.providerMessage) THEN e.providerMessage ELSE Str(e.message)


\* ----------------------------------------------------------------- actions
Route(r) == req[r].route

InFlight(r) == pc[r] \in { "describe", "generate", "edit" }

LastCall(r) == calls[r][Len(calls[r])]

\* calls[r] with its last call settled
Settled(r, outcome, result) ==
  [calls[r] EXCEPT ![Len(calls[r])] = [@ EXCEPT !.outcome = outcome, !.result = result]]

\* res.status(..).json(..) / res.json(..), ending the request
Respond(r, response) ==
  /\ resp' = [resp EXCEPT ![r] = Append(@, response)]
  /\ pc' = [pc EXCEPT ![r] = "done"]

\* axios.post(...) and the await on it
Issue(r, call, at) ==
  /\ calls' = [calls EXCEPT ![r] = Append(@, call)]
  /\ pc' = [pc EXCEPT ![r] = at]

\* the catch block of the enhance and create handlers
Catch(r, e) ==
  /\ error' = [error EXCEPT ![r] = e]
  /\ Respond(r, Response(500, TRUE, FALSE, FailureText(Route(r)), details(e), NoFile))

\* A request arrives and passes through the upload middleware.  Requests are
\* numbered in the order they arrive.
Receive(r) ==
  /\ pc[r] = "idle"
  /\ \A q \in Req : q < r => pc[q] # "idle"
  /\ \E route \in Routes, files \in FileLists, prompt \in Prompts :
       /\ route # "create" => prompt = Undefined
       /\ req' = [req EXCEPT ![r] = [route |-> route, files |-> files, prompt |-> prompt]]
       /\ LET up == upload(files, maxCount(route))
          IN  IF up.error # "none"
              THEN /\ Respond(r, DefaultErrorResponse(up.error))
                   /\ UNCHANGED uploads
              ELSE /\ uploads' = uploads \cup
                         { [rand |-> <<r, i>>, ext |-> extname(files[i].originalname)] :
                             i \in 1..Len(files) }
                   /\ pc' = [pc EXCEPT ![r] = "handler"]
                   /\ UNCHANGED resp
  /\ UNCHANGED <<calls, error, outputs, now>>
  /\ UNCHANGED <<env, health, pageVars>>

\* app.post('/api/upload', ...)
HandleUpload(r) ==
  /\ pc[r] = "handler"
  /\ Route(r) = "upload"
  /\ IF Len(req[r].files) = 0
     THEN Respond(r, BadRequest(<<"No image file provided">>))
     ELSE Respond(r, Response(200, TRUE, TRUE, <<>>, Undefined, NoFile))
  /\ UNCHANGED <<req, calls, error, uploads, outputs, now>>
  /\ UNCHANGED <<env, health, pageVars>>

\* HandleEnhance as it would be if the handler did not look for the file
\* before reading req.file.path
HandleEnhanceNoCheck(r) ==
  /\ pc[r] = "handler"
  /\ Route(r) \in { "iphone17pro", "monaco", "full" }
  /\ IF Len(req[r].files) = 0
     THEN /\ Catch(r, TypeErrorOf("reading 'path'"))
          /\ UNCHANGED calls
     ELSE /\ IF Route(r) = "iphone17pro"
             THEN Issue(r, EditCall(modePrompt(req[r])), "edit")
             ELSE Issue(r, AnalysisCall(Route(r)), "describe")
          /\ UNCHANGED <<resp, error>>
  /\ UNCHANGED <<req, uploads, outputs, now>>
  /\ UNCHANGED <<env, health, pageVars>>

\* app.post('/api/enhance/iphone17pro' | '/monaco' | '/full', ...) up to the
\* first await
HandleEnhance(r) ==
  /\ pc[r] = "handler"
  /\ Route(r) \in { "iphone17pro", "monaco", "full" }
  /\ IF Len(req[r].files) = 0
     THEN /\ Respond(r, BadRequest(<<"No image file provided">>))
          /\ UNCHANGED calls
     ELSE /\ IF Route(r) = "iphone17pro"
             THEN Issue(r, EditCall(modePrompt(req[r])), "edit")
             ELSE Issue(r, AnalysisCall(Route(r)), "describe")
          /\ UNCHANGED resp
  /\ UNCHANGED <<req, error, uploads, outputs, now>>
  /\ UNCHANGED <<env, health, pageVars>>

\* promptMissing as it would be if the prompt were not trimmed
promptMissingNoTrim(userPrompt) == ~Truthy(userPrompt)

\* !userPrompt || userPrompt.trim().length === 0
promptMissing(userPrompt) == ~Truthy(userPrompt) \/ Len(Trim(userPrompt.s)) = 0

\* app.post('/api/create', ...) up to the first await
HandleCreate(r) ==
  /\ pc[r] = "handler"
  /\ Route(r) = "create"
  /\ IF Len(req[r].files) # 2
     THEN /\ Respond(r, BadRequest(<<"Please upload exactly 2 photos">>))
          /\ UNCHANGED calls
     ELSE IF promptMissing(req[r].prompt)
     THEN /\ Respond(r, BadRequest(
                <<"Please provide a prompt describing what the people should be doing">>))
          /\ UNCHANGED calls
     ELSE /\ Issue(r, AnalysisCall(Route(r)), "describe")
          /\ UNCHANGED resp
  /\ UNCHANGED <<req, error, uploads, outputs, now>>
  /\ UNCHANGED <<env, health, pageVars>>

\* AnalysisFails as it would be if the failure were swallowed and the
\* generation call went out with no description
AnalysisFailsThenGenerates(r, e) ==
  /\ pc[r] = "describe"
  /\ error' = [error EXCEPT ![r] = e]
  /\ calls' = [calls EXCEPT ![r] =
       Append(Settled(r, "rejected", Undefined),
              GenerationCall(generationPrompt(Route(r), modePrompt(req[r]), Undefined)))]
  /\ pc' = [pc EXCEPT ![r] = "generate"]
  /\ UNCHANGED <<req, resp, uploads, outputs, now>>
  /\ UNCHANGED <<env, health, pageVars>>

\* the chat/completions call rejects: the await throws into the handler's catch
AnalysisFails(r, e) ==
  /\ pc[r] = "describe"
  /\ calls' = [calls EXCEPT ![r] = Settled(r, "rejected", Undefined)]
  /\ Catch(r, e)
  /\ UNCHANGED <<req, uploads, outputs, now>>
  /\ UNCHANGED <<env, health, pageVars>>

\* the chat/completions call resolves: choices[0].message.content is read and
\* the generation call is issued
AnalysisReturns(r, body) ==
  /\ pc[r] = "describe"
  /\ IF ~body.hasChoices
     THEN /\ calls' = [calls EXCEPT ![r] = Settled(r, "resolved", Undefined)]
          /\ Catch(r, TypeErrorOf("reading '0'"))
     ELSE IF Len(body.choices) = 0
     THEN /\ calls' = [calls EXCEPT ![r] = Settled(r, "resolved", Undefined)]
          /\ Catch(r, TypeErrorOf("reading 'message'"))
     ELSE LET description == body.choices[1].content
          IN  /\ calls' = [calls EXCEPT ![r] =
                   Append(Settled(r, "resolved", description),
                          GenerationCall(generationPrompt(Route(r), modePrompt(req[r]),
                                                          description)))]
              /\ pc' = [pc EXCEPT ![r] = "generate"]
              /\ UNCHANGED <<error, resp>>
  /\ UNCHANGED <<req, uploads, outputs, now>>
  /\ UNCHANGED <<env, health, pageVars>>

\* ImageFails as it would be if a rejected images call were tried once more
ImageFailsRetries(r, e) ==
  /\ pc[r] \in { "edit", "generate" }
  /\ IF \E i \in 1..Len(calls[r]) : calls[r][i].outcome = "rejected"
     THEN /\ calls' = [calls EXCEPT ![r] = Settled(r, "rejected", Undefined)]
          /\ Catch(r, e)
     ELSE /\ calls' = [calls EXCEPT ![r] =
               Append(Settled(r, "rejected", Undefined),
                      [LastCall(r) EXCEPT !.outcome = "pending"])]
          /\ UNCHANGED <<pc, error, resp>>
  /\ UNCHANGED <<req, uploads, outputs, now>>
  /\ UNCHANGED <<env, health, pageVars>>

\* the images call rejects
ImageFails(r, e) ==
  /\ pc[r] \in { "edit", "generate" }
  /\ calls' = [calls EXCEPT ![r] = Settled(r, "rejected", Undefined)]
  /\ Catch(r, e)
  /\ UNCHANGED <<req, uploads, outputs, now>>
  /\ UNCHANGED <<env, health, pageVars>>

\* `${prefix}-${Date.now()}.png`
OutputName(r) == [prefix |-> OutputPrefix(Route(r)), ts |-> now]

\* fs.writeFileSync(outputPath, outputBuffer)
writeFileSync(dir, name, bytes) ==
  [n \in DOMAIN dir \cup { name } |-> IF n = name THEN bytes ELSE dir[n]]

\* ImageReturns as it would be if the success response were sent and the
\* file left to be written afterwards
ImageReturnsRespondsFirst(r, body) ==
  /\ pc[r] \in { "edit", "generate" }
  /\ body.hasData /\ Len(body.data) > 0 /\ body.data[1].b64_json.t = "string"
  /\ calls' = [calls EXCEPT ![r] = Settled(r, "resolved", body.data[1].b64_json)]
  /\ Respond(r, Response(200, TRUE, TRUE, <<>>, Undefined, OutputName(r)))
  /\ UNCHANGED <<req, error, uploads, outputs, now>>
  /\ UNCHANGED <<env, health, pageVars>>

\* ImageReturns as it would be if the output file were created before the
\* provider's body was read, so that a body without the image leaves an empty
\* file behind
ImageReturnsCreatesFileFirst(r, body) ==
  /\ pc[r] \in { "edit", "generate" }
  /\ IF ~body.hasData \/ Len(body.data) = 0
     THEN /\ calls' = [calls EXCEPT ![r] = Settled(r, "resolved", Undefined)]
          /\ outputs' = writeFileSync(outputs, OutputName(r), <<>>)
          /\ Catch(r, TypeErrorOf("reading '0'"))
     ELSE IF body.data[1].b64_json.t = "undefined"
     THEN /\ calls' = [calls EXCEPT ![r] = Settled(r, "resolved", Undefined)]
          /\ outputs' = writeFileSync(outputs, OutputName(r), <<>>)
          /\ Catch(r, TypeErrorOf("The first argument must be of type string"))
     ELSE /\ calls' = [calls EXCEPT ![r] = Settled(r, "resolved", body.data[1].b64_json)]
          /\ outputs' = writeFileSync(outputs, OutputName(r),
                                      Base64Decode(body.data[1].b64_json.s))
          /\ Respond(r, Response(200, TRUE, TRUE, <<>>, Undefined, OutputName(r)))
          /\ UNCHANGED error
  /\ UNCHANGED <<req, uploads, now>>
  /\ UNCHANGED <<env, health, pageVars>>

\* the images call resolves: result.data[0].b64_json is decoded, written to
\* the outputs directory under the output name, and the success response is
\* sent; a body without it throws into the catch
ImageReturns(r, body) ==
  /\ pc[r] \in { "edit", "generate" }
  /\ IF ~body.hasData
     THEN /\ calls' = [calls EXCEPT ![r] = Settled(r, "resolved", Undefined)]
          /\ Catch(r, TypeErrorOf("reading '0'"))
          /\ UNCHANGED outputs
     ELSE IF Len(body.data) = 0
     THEN /\ calls' = [calls EXCEPT ![r] = Settled(r, "resolved", Undefined)]
          /\ Catch(r, TypeErrorOf("reading 'b64_json'"))
          /\ UNCHANGED outputs
     ELSE IF body.data[1].b64_json.t = "undefined"
     THEN /\ calls' = [calls EXCEPT ![r] = Settled(r, "resolved", Undefined)]
          /\ Catch(r, TypeErrorOf("The first argument must be of type string"))
          /\ UNCHANGED outputs
     ELSE /\ calls' = [calls EXCEPT ![r] = Settled(r, "resolved", body.data[1].b64_json)]
          /\ outputs' = writeFileSync(outputs, OutputName(r),
                                      Base64Decode(body.data[1].b64_json.s))
          /\ Respond(r, Response(200, TRUE, TRUE, <<>>, Undefined, OutputName(r)))
          /\ UNCHANGED error
  /\ UNCHANGED <<req, uploads, now>>
  /\ UNCHANGED <<env, health, pageVars>>

\* axios's timer on a call that carries a timeout
TimesOut(r) ==
  /\ InFlight(r)
  /\ LastCall(r).timeout > 0
  /\ IF pc[r] = "describe" THEN AnalysisFails(r, TimeoutError) ELSE ImageFails(r, TimeoutError)

\* a millisecond passes
Tick ==
  /\ now < MaxTime
  /\ now' = now + 1
  /\ UNCHANGED <<req, pc, calls, error, resp, uploads, outputs>>
  /\ UNCHANGED <<env, health, pageVars>>

Next ==
  \/ \E r \in Req : Receive(r)
  \/ \E r \in Req : HandleUpload(r)
  \/ \E r \in Req : HandleEnhance(r)
  \/ \E r \in Req : HandleCreate(r)
  \/ \E r \in Req, body \in AnalysisBodies : AnalysisReturns(r, body)
  \/ \E r \in Req, e \in ProviderErrors : AnalysisFails(r, e)
  \/ \E r \in Req, body \in ImageBodies : ImageReturns(r, body)
  \/ \E r \in Req, e \in ProviderErrors : ImageFails(r, e)
  \/ \E r \in Req : TimesOut(r)
  \/ Tick

Spec == Init /\ [][Next]_vars

\* The same system with what the runtime guarantees: a handler that can run
\* does run, and a call that carries a timeout settles by it.  Nothing obliges
\* the provider to answer.
LiveSpec ==
  /\ Spec
  /\ \A r \in Req : WF_vars(HandleUpload(r))
  /\ \A r \in Req : WF_vars(HandleEnhance(r))
  /\ \A r \in Req : WF_vars(HandleCreate(r))
  /\ \A r \in Req : WF_vars(TimesOut(r))


\* ------------------------------------------------------------ health check
MaxHealth == 2

\* apiKeyConfigured as it would be if the key were only tested for presence
apiKeyConfiguredIfDefined(key) == key.t # "undefined"

\* !!process.env.OPENAI_API_KEY
apiKeyConfigured(key) == Truthy(key)

\* app.get('/api/health', ...)
Health ==
  /\ Len(health) < MaxHealth
  /\ health' = Append(health, [status |-> "ok",
                               apiKeyConfigured |-> apiKeyConfigured(env),
                               timestamp |-> now])
  /\ UNCHANGED <<serverVars, env, pageVars>>

\* The server started with any setting of the key, serving one upload request
\* and the health check.
HealthInit ==
  /\ ServerInit
  /\ env \in ApiKeys
  /\ PagesInit

HealthNext ==
  \/ Receive(1)
  \/ HandleUpload(1)
  \/ HandleEnhance(1)
  \/ HandleCreate(1)
  \/ \E body \in AnalysisBodies : AnalysisReturns(1, body)
  \/ \E e \in ProviderErrors : AnalysisFails(1, e)
  \/ \E body \in ImageBodies : ImageReturns(1, body)
  \/ \E e \in ProviderErrors : ImageFails(1, e)
  \/ TimesOut(1)
  \/ Tick
  \/ Health

HealthSpec == HealthInit /\ [][HealthNext]_vars


\* ---------------------------------------------------------------- the pages
API_URL == "http://localhost:5000"

\* the files a user may drop and the text a user may type
PageFiles == { File("a.jpg"), File("b.png") }

Modes == { "iphone17pro", "monaco", "full" }

PagePrompts == { p \in Prompts : p.t = "string" }

\* style: ... of the three enhance routes
StyleName(mode) ==
  CASE mode = "iphone17pro" -> <<"iPhone 17 Pro">>
    [] mode = "monaco" -> <<"Monaco Supercar">>
    [] OTHER -> <<"iPhone 17 Pro + Monaco Supercar">>

\* response.data of a successful enhance request: the stored upload of the
\* posted file, the output file, the style of the posted mode
EnhanceData(sent) ==
  [original |-> <<"/uploads/", sent.file.s[1]>>,
   enhanced |-> <<"/outputs/", OutputPrefix(sent.mode), ".png">>,
   style |-> StyleName(sent.mode)]

\* response.data of a successful create request
CreateData == [result |-> <<"/outputs/", OutputPrefix("create"), ".png">>]

\* The rejections of the page's axios.post: a 500 whose body carries details,
\* a 500 whose body does not (the default error handler's), the timeout, and
\* an error with no message
PageRejections ==
  { [response |-> TRUE, details |-> Str(<<"Rate limit reached">>),
     message |-> <<"Request failed with status code 500">>],
    [response |-> TRUE, details |-> Undefined,
     message |-> <<"Request failed with status code 500">>],
    [response |-> FALSE, details |-> Undefined,
     message |-> <<"timeout of 180000ms exceeded">>],
    [response |-> FALSE, details |-> Undefined, message |-> <<>>] }

\* err.response?.data?.details || err.message || fallback
errorText(err, fallback) ==
  IF err.response /\ Truthy(err.details) THEN err.details
  ELSE IF err.message # <<>> THEN Str(err.message)
  ELSE Str(<<fallback>>)

\* axios.post(...) from a page, and its settling
Post(page, sent) == wire' = [wire EXCEPT ![page] = [open |-> TRUE, sent |-> sent]]

Closed(page) == wire' = [wire EXCEPT ![page].open = FALSE]

\* --- the single-photo page.  The mode buttons, the dropzone and the two
\* action buttons are rendered while result is null; the action buttons need
\* a preview and are disabled while processing.
FlexOnDrop(file) ==
  /\ flex.result = Null
  /\ flex' = [flex EXCEPT !.selectedFile = file, !.preview = createObjectURL(file),
                          !.result = Null, !.error = Null]
  /\ UNCHANGED <<serverVars, env, health, polaroid, wire>>

FlexSetMode(m) ==
  /\ flex.result = Null
  /\ flex' = [flex EXCEPT !.mode = m]
  /\ UNCHANGED <<serverVars, env, health, polaroid, wire>>

\* processImage up to the await
FlexProcessImage ==
  /\ flex.result = Null /\ flex.preview # Null /\ ~flex.processing
  /\ IF flex.selectedFile = Null
     THEN UNCHANGED <<flex, wire>>
     ELSE /\ flex' = [flex EXCEPT !.processing = TRUE, !.error = Null]
          /\ Post("flex", [file |-> flex.selectedFile, mode |-> flex.mode])
  /\ UNCHANGED <<serverVars, env, health, polaroid>>

\* the await resolves: setResult, then finally setProcessing(false)
FlexResolved ==
  /\ wire["flex"].open
  /\ LET data == EnhanceData(wire["flex"].sent)
     IN  flex' = [flex EXCEPT
           !.result = [t |-> "object", s |-> <<>>,
                       original |-> <<API_URL>> \o data.original,
                       enhanced |-> <<API_URL>> \o data.enhanced,
                       style |-> data.style],
           !.processing = FALSE]
  /\ Closed("flex")
  /\ UNCHANGED <<serverVars, env, health, polaroid>>

\* FlexRejected as it would be if setProcessing(false) were the last line of
\* the try block instead of a finally
FlexRejectedNoFinally(err) ==
  /\ wire["flex"].open
  /\ flex' = [flex EXCEPT !.error = errorText(err, "Failed to process image")]
  /\ Closed("flex")
  /\ UNCHANGED <<serverVars, env, health, polaroid>>

\* the await rejects: setError, then finally setProcessing(false)
FlexRejected(err) ==
  /\ wire["flex"].open
  /\ flex' = [flex EXCEPT !.error = errorText(err, "Failed to process image"),
                          !.processing = FALSE]
  /\ Closed("flex")
  /\ UNCHANGED <<serverVars, env, health, polaroid>>

\* reset, from Clear or from Process Another
FlexReset ==
  /\ \/ flex.result # Null
     \/ flex.preview # Null /\ ~flex.processing
  /\ flex' = [flex EXCEPT !.selectedFile = Null, !.preview = Null,
                          !.result = Null, !.error = Null]
  /\ UNCHANGED <<serverVars, env, health, polaroid, wire>>

\* --- the two-photo page.  The dropzones, the prompt and the two buttons are
\* rendered while resultUrl is null; Create Polaroid is disabled while
\* processing or while canCreate is false, Clear while processing.
PolaroidOnDrop1(file) ==
  /\ polaroid.resultUrl = Null
  /\ polaroid' = [polaroid EXCEPT
       !.photo1 = [file |-> file, preview |-> createObjectURL(file)],
       !.resultUrl = Null, !.error = Null]
  /\ UNCHANGED <<serverVars, env, health, flex, wire>>

PolaroidOnDrop2(file) ==
  /\ polaroid.resultUrl = Null
  /\ polaroid' = [polaroid EXCEPT
       !.photo2 = [file |-> file, preview |-> createObjectURL(file)],
       !.resultUrl = Null, !.error = Null]
  /\ UNCHANGED <<serverVars, env, health, flex, wire>>

\* onChange of the prompt: setPrompt(e.target.value)
PolaroidSetPrompt(text) ==
  /\ polaroid.resultUrl = Null
  /\ polaroid' = [polaroid EXCEPT !.prompt = text]
  /\ UNCHANGED <<serverVars, env, health, flex, wire>>

\* photo1.file && photo2.file && prompt.trim().length > 0
canCreate ==
  /\ polaroid.photo1.file # Null
  /\ polaroid.photo2.file # Null
  /\ Len(Trim(polaroid.prompt.s)) > 0

\* createPolaroid up to the await
createPolaroid ==
  /\ polaroid.resultUrl = Null /\ ~polaroid.processing /\ canCreate
  /\ IF polaroid.photo1.file = Null \/ polaroid.photo2.file = Null
        \/ Len(Trim(polaroid.prompt.s)) = 0
     THEN UNCHANGED <<polaroid, wire>>
     ELSE /\ polaroid' = [polaroid EXCEPT !.processing = TRUE, !.error = Null]
          /\ Post("polaroid", [photo1 |-> polaroid.photo1.file,
                               photo2 |-> polaroid.photo2.file,
                               prompt |-> polaroid.prompt])
  /\ UNCHANGED <<serverVars, env, health, flex>>

\* the await resolves: setResultUrl, then finally setProcessing(false)
PolaroidResolved ==
  /\ wire["polaroid"].open
  /\ polaroid' = [polaroid EXCEPT
       !.resultUrl = Str(<<API_URL>> \o CreateData.result),
       !.processing = FALSE]
  /\ Closed("polaroid")
  /\ UNCHANGED <<serverVars, env, health, flex>>

\* the await rejects: setError, then finally setProcessing(false)
PolaroidRejected(err) ==
  /\ wire["polaroid"].open
  /\ polaroid' = [polaroid EXCEPT !.error = errorText(err, "Failed to create image"),
                                  !.processing = FALSE]
  /\ Closed("polaroid")
  /\ UNCHANGED <<serverVars, env, health, flex>>

\* reset, from Clear or from Create Another
PolaroidReset ==
  /\ polaroid.resultUrl # Null \/ ~polaroid.processing
  /\ polaroid' = [polaroid EXCEPT !.photo1 = NoPhoto, !.photo2 = NoPhoto,
                                  !.prompt = Str(<<>>), !.resultUrl = Null,
                                  !.error = Null]
  /\ UNCHANGED <<serverVars, env, health, flex, wire>>

PagesNext ==
  \/ \E file \in PageFiles : FlexOnDrop(file)
  \/ \E m \in Modes : FlexSetMode(m)
  \/ FlexProcessImage
  \/ FlexResolved
  \/ \E err \in PageRejections : FlexRejected(err)
  \/ FlexReset
  \/ \E file \in PageFiles : PolaroidOnDrop1(file)
  \/ \E file \in PageFiles : PolaroidOnDrop2(file)
  \/ \E text \in PagePrompts : PolaroidSetPrompt(text)
  \/ createPolaroid
  \/ PolaroidResolved
  \/ \E err \in PageRejections : PolaroidRejected(err)
  \/ PolaroidReset

\* The two pages in a browser, each posting to a server that answers or fails
\* as it will.
PagesSpec == Init /\ [][PagesNext]_vars


\* ================================================================== claims
Arrived(r) == pc[r] # "idle"

Ended(r, status) ==
  pc[r] = "done" /\ Len(resp[r]) = 1 /\ resp[r][1].status = status

\* the description call of r was issued and rejected
DescribeFailed(r) ==
  /\ Len(calls[r]) >= 1
  /\ calls[r][1].endpoint = "chat/completions"
  /\ calls[r][1].outcome = "rejected"

GenerationIssued(r) ==
  \E i \in 1..Len(calls[r]) : calls[r][i].endpoint = "images/generations"

\* C1: on the describe-then-generate routes (create, monaco, full), once the
\* description call has failed, no generation call exists for that request
\* and the request has ended with a single 500 response.
C1_DescribeFailureStopsRequest ==
  \A r \in Req :
    DescribeFailed(r) => ~GenerationIssued(r) /\ Len(calls[r]) = 1 /\ Ended(r, 500)

\* C1 witness: a create request and a monaco request whose description calls
\* both failed.
C1_Witness ==
  \E r1, r2 \in Req :
    /\ Route(r1) = "create" /\ DescribeFailed(r1)
    /\ Route(r2) = "monaco" /\ DescribeFailed(r2)

\* an image the upload configuration is meant to accept
ValidImage(file) ==
  /\ ToLowerCase(extname(file.originalname)) \in AllowedExt
  /\ allowedTypesTest(file.mimetype)
  /\ file.size <= FileSizeLimit

AllValid(files) == \A i \in 1..Len(files) : ValidImage(files[i])

\* C2 (as claimed): a create request with 0, 1 or more than 2 valid image
\* parts ends with 400 {error: "Please upload exactly 2 photos"} and issues
\* no provider call.
C2_WrongCountIs400 ==
  \A r \in Req :
    (Arrived(r) /\ Route(r) = "create" /\ Len(req[r].files) # 2 /\ AllValid(req[r].files))
      => /\ calls[r] = <<>>
         /\ pc[r] = "done" => resp[r] = <<BadRequest(<<"Please upload exactly 2 photos">>)>>

\* a prompt field that is missing, empty or only white space
BlankPrompt(prompt) ==
  prompt.t = "undefined" \/ \A i \in 1..Len(prompt.s) : IsWhiteSpace(prompt.s[i])

\* C3: a create request with exactly 2 valid images and a missing, empty or
\* white-space prompt never issues a provider call, and once handled it has
\* ended with a single 400 response.
C3_BlankPromptIs400 ==
  \A r \in Req :
    (Arrived(r) /\ Route(r) = "create" /\ Len(req[r].files) = 2 /\ AllValid(req[r].files)
       /\ BlankPrompt(req[r].prompt))
      => /\ calls[r] = <<>>
         /\ pc[r] \in { "handler", "done" }
         /\ pc[r] = "done" => Ended(r, 400) /\ resp[r][1].json

\* C3 witness: such a request with a white-space prompt has been answered 400.
C3_Witness ==
  \E r \in Req :
    /\ Route(r) = "create" /\ Len(req[r].files) = 2 /\ AllValid(req[r].files)
    /\ req[r].prompt = Str(<<" ">>)
    /\ Ended(r, 400)

HasForeignExtension(files) ==
  \E i \in 1..Len(files) : ToLowerCase(extname(files[i].originalname)) \notin AllowedExt

StoredFor(r) == { f \in uploads : f.rand[1] = r }

\* C4 (as claimed): on every upload route, a request carrying a file whose
\* extension is none of jpg, jpeg, png, webp ends with status 400 whatever
\* the declared content-type; nothing of it is stored and no provider call
\* is made.
C4_ForeignExtensionIs400 ==
  \A r \in Req :
    (Arrived(r) /\ HasForeignExtension(req[r].files))
      => Ended(r, 400) /\ StoredFor(r) = {} /\ calls[r] = <<>>

HasOversizedFile(files) == \E i \in 1..Len(files) : files[i].size > FileSizeLimit

\* C5: a request carrying a file larger than the 20 MB limit is rejected (a
\* single error response, no success) and no provider call is ever issued
\* for it, before or after.
C5_OversizedRejectedBeforeProvider ==
  \A r \in Req :
    (Arrived(r) /\ HasOversizedFile(req[r].files))
      => /\ calls[r] = <<>>
         /\ pc[r] = "done" /\ Len(resp[r]) = 1
         /\ resp[r][1].status >= 400 /\ ~resp[r][1].success

\* C5 witness: a request whose only fault is the oversized file has been
\* rejected for its size.
C5_Witness ==
  \E r \in Req :
    /\ Arrived(r) /\ HasOversizedFile(req[r].files)
    /\ Len(req[r].files) <= maxCount(Route(r))
    /\ Route(r) = "iphone17pro"
    /\ pc[r] = "done" /\ resp[r][1].error = <<"File too large">>


\* r has been answered {success: true} with a path under /outputs/
SuccessWithFile(r) ==
  Len(resp[r]) >= 1 /\ resp[r][1].success /\ resp[r][1].out # NoFile

\* the decoded bytes of every payload the provider may send
CompleteImages == { Base64Decode(p) : p \in Payloads }

C6_FileExists ==
  \A r \in Req :
    SuccessWithFile(r) =>
      /\ resp[r][1].out \in DOMAIN outputs
      /\ outputs[resp[r][1].out] \in CompleteImages

C6_WrittenWhenAnswered ==
  \A r \in Req :
    (~SuccessWithFile(r) /\ SuccessWithFile(r)') =>
      /\ resp'[r][1].out \in DOMAIN outputs'
      /\ LastCall(r)'.result.t = "string"
      /\ outputs'[resp'[r][1].out] = Base64Decode(LastCall(r)'.result.s)

ProviderFailed(r) ==
  \E i \in 1..Len(calls[r]) :
    \/ calls[r][i].outcome = "rejected"
    \/ /\ calls[r][i].endpoint # "chat/completions"
       /\ calls[r][i].outcome = "resolved"
       /\ calls[r][i].result.t = "undefined"

\* the rejection carries a provider error message (a non-empty string)
ProviderSupplied(e) ==
  e.response /\ e.providerMessage.t = "string" /\ e.providerMessage.s # <<>>

\* C7: when a provider call of a request has failed, the request has ended
\* with a single 500 JSON response {error, details} whose details is the
\* provider's error message when it supplied one and the local exception
\* message otherwise.
C7_ProviderFailureIs500 ==
  \A r \in Req :
    ProviderFailed(r) =>
      /\ Ended(r, 500)
      /\ resp[r][1].json
      /\ resp[r][1].error = FailureText(Route(r))
      /\ error[r] # NoError
      /\ resp[r][1].details =
           IF ProviderSupplied(error[r]) THEN error[r].providerMessage
           ELSE Str(error[r].message)

\* C7 witness: one request failed with the provider's message in details,
\* another by the timeout with the local message in details.
C7_Witness ==
  \E r1, r2 \in Req :
    /\ ProviderFailed(r1) /\ ProviderSupplied(error[r1])
    /\ resp[r1][1].details = Str(<<"Rate limit reached">>)
    /\ ProviderFailed(r2) /\ error[r2] = TimeoutError
    /\ resp[r2][1].details = Str(<<"timeout of 120000ms exceeded">>)

IsPrefix(a, b) == Len(a) <= Len(b) /\ SubSeq(b, 1, Len(a)) = a

IsSuffix(a, b) == Len(a) <= Len(b) /\ SubSeq(b, Len(b) - Len(a) + 1, Len(b)) = a

\* C8: the prompt of every generation call starts with the whole mode prompt
\* (for create, the template around the user's text as sent), ends with the
\* text the description call returned, and the two do not overlap: the
\* description is appended, not substituted.
C8_PromptComposition ==
  \A r \in Req : \A i \in 1..Len(calls[r]) :
    (calls[r][i].endpoint = "images/generations" /\ calls[r][1].result.t = "string") =>
      LET prompt == calls[r][i].prompt
          description == calls[r][1].result.s
          template == modePrompt(req[r])
      IN  /\ IsPrefix(template, prompt)
          /\ IsSuffix(description, prompt)
          /\ Len(prompt) >= Len(template) + Len(description)
          /\ Route(r) = "create" => Contains(prompt, req[r].prompt.s)

\* C8 witness: a create request and a full request have each issued the
\* generation call after a non-empty description.
C8_Witness ==
  \E r1, r2 \in Req :
    /\ Route(r1) = "create" /\ GenerationIssued(r1) /\ Truthy(calls[r1][1].result)
    /\ Route(r2) = "full" /\ GenerationIssued(r2) /\ Truthy(calls[r2][1].result)

\* C9 (as claimed): every request that has issued a provider call is
\* eventually answered, even if the provider never answers.
C9_EveryCallerIsAnswered ==
  \A r \in Req : (Len(calls[r]) > 0) ~> (Len(resp[r]) = 1)

\* C10 (as claimed): the outputs directory is append-only: a request that is
\* answered with an output path wrote it under a name no output file had
\* before, so two answers never name the same output file.
C10_OutputsAppendOnly ==
  [][\A r \in Req :
       (~SuccessWithFile(r) /\ SuccessWithFile(r)') =>
         resp'[r][1].out \notin DOMAIN outputs]_vars

\* a request on a single-file route that carries no file in field `image`
NoImageFile(r) ==
  /\ Arrived(r)
  /\ Route(r) \in { "upload", "iphone17pro", "monaco", "full" }
  /\ Len(req[r].files) = 0

C11_Answered400 ==
  \A r \in Req :
    NoImageFile(r) =>
      /\ calls[r] = <<>>
      /\ error[r] = NoError
      /\ pc[r] \in { "handler", "done" }
      /\ pc[r] = "done" => resp[r] = <<BadRequest(<<"No image file provided">>)>>

C11_NothingWritten ==
  \A r \in Req :
    (NoImageFile(r)' /\ pc'[r] # pc[r]) => outputs' = outputs

\* C11: a request to /api/upload or /api/enhance/{iphone17pro, monaco, full}
\* with no file in field `image` never issues a provider call, is answered
\* only by 400 {error: "No image file provided"}, and none of its steps
\* writes to the outputs directory.
C11_NoFileIs400 == []C11_Answered400 /\ [][C11_NothingWritten]_vars

\* C11 witness: an upload request and a monaco request without a file have
\* both been answered 400.
C11_Witness ==
  \E r1, r2 \in Req :
    /\ Route(r1) = "upload" /\ NoImageFile(r1) /\ Ended(r1, 400)
    /\ Route(r2) = "monaco" /\ NoImageFile(r2) /\ Ended(r2, 400)

\* the provider calls a route makes, in order
ModeSequence(route) ==
  CASE route = "iphone17pro" -> <<"images/edits">>
    [] route \in { "monaco", "full", "create" } -> <<"chat/completions", "images/generations">>
    [] OTHER -> <<>>

Endpoints(r) == [i \in 1..Len(calls[r]) |-> calls[r][i].endpoint]

C13_PrefixOfModeSequence ==
  \A r \in Req :
    /\ IsPrefix(Endpoints(r), ModeSequence(Route(r)))
    /\ \A i \in 1..Len(calls[r]) : calls[r][i].outcome = "pending" => i = Len(calls[r])
    /\ InFlight(r) <=> (Len(calls[r]) > 0 /\ LastCall(r).outcome = "pending")
    /\ Len(calls[r]) = 2 => calls[r][1].outcome = "resolved"

C13_IssuedOneAtATime ==
  \A r \in Req :
    LET n == Len(calls[r])
    IN  \/ calls'[r] = calls[r]
        \/ n = 0 /\ Len(calls'[r]) = 1 /\ calls'[r][1].outcome = "pending"
        \/ /\ n > 0 /\ calls[r][n].outcome = "pending"
           /\ Len(calls'[r]) \in { n, n + 1 }
           /\ calls'[r][n].outcome # "pending"
           /\ \A i \in 1..(n - 1) : calls'[r][i] = calls[r][i]

\* C13: the provider calls of a request are always a prefix of its mode's
\* sequence ([edit] for iphone17pro, [describe, generate] for monaco, full and
\* create), so none is issued twice; only the last call can be in flight, so
\* never two at once; the generate call exists only after the describe call
\* resolved; and a step issues at most one call, settling the one before.
C13_CallsSequential == []C13_PrefixOfModeSequence /\ [][C13_IssuedOneAtATime]_vars

\* C13 witness: a create request that made both calls and was answered, and
\* an iphone17pro request whose single call was rejected.
C13_Witness ==
  \E r1, r2 \in Req :
    /\ Route(r1) = "create" /\ Len(calls[r1]) = 2 /\ SuccessWithFile(r1)
    /\ Route(r2) = "iphone17pro" /\ Len(calls[r2]) = 1 /\ calls[r2][1].outcome = "rejected"

\* the description call of r resolved (2xx) without a usable description:
\* empty content, missing content, or missing or empty `choices`
DescribeReturnedNothing(r) ==
  /\ Len(calls[r]) >= 1
  /\ calls[r][1].endpoint = "chat/completions"
  /\ calls[r][1].outcome = "resolved"
  /\ ~Truthy(calls[r][1].result)

\* C14 (as claimed): when the description call resolves with an empty or
\* malformed description (empty content, missing content, missing or empty
\* `choices`), the request has nevertheless issued the generation call.
C14_MalformedDescriptionProceeds ==
  \A r \in Req : DescribeReturnedNothing(r) => GenerationIssued(r)

\* r is answered in this step with a 4xx or 5xx status
FailsNow(r) ==
  resp[r] = <<>> /\ resp'[r] # <<>> /\ resp'[r][1].status >= 400

\* r is answered in this step with success and an output path
SucceedsNow(r) ==
  resp[r] = <<>> /\ SuccessWithFile(r)'

C15_AnsweredOnce ==
  \A r \in Req :
    /\ Len(resp[r]) <= 1
    /\ pc[r] = "done" <=> Len(resp[r]) = 1

C15_OnlySuccessWrites ==
  /\ \A r \in Req : FailsNow(r) => outputs' = outputs
  /\ outputs' # outputs =>
       \E r \in Req :
         /\ SucceedsNow(r)
         /\ \A n \in DOMAIN outputs : n \in DOMAIN outputs'
         /\ \A n \in DOMAIN outputs' :
              n # resp'[r][1].out => n \in DOMAIN outputs /\ outputs'[n] = outputs[n]

HealthAnswered == Len(health') = Len(health) + 1

C12_FlagTellsKey ==
  \A i \in 1..Len(health) :
    /\ health[i].status = "ok"
    /\ health[i].apiKeyConfigured = (env # Undefined /\ env # Str(<<>>))

C12_HealthTouchesNothing ==
  HealthAnswered => calls' = calls /\ uploads' = uploads /\ outputs' = outputs

\* C12: every answer of GET /api/health has status 'ok' and a credential
\* flag that is false when OPENAI_API_KEY is unset or empty and true
\* otherwise, and the step that answers it issues no provider call and leaves
\* the uploads and outputs directories as they were.
C12_HealthReportsKey == []C12_FlagTellsKey /\ [][C12_HealthTouchesNothing]_vars

\* C12 witness: the health check was answered with the key set to the empty
\* string, while a request was waiting on the provider and a file was stored.
C12_Witness ==
  /\ env = Str(<<>>)
  /\ Len(health) >= 1 /\ ~health[1].apiKeyConfigured
  /\ InFlight(1) /\ uploads # {}

C16_Flex ==
  /\ ~(flex.result # Null /\ flex.error # Null)
  /\ flex.processing <=> wire["flex"].open

C16_Polaroid ==
  /\ ~(polaroid.resultUrl # Null /\ polaroid.error # Null)
  /\ polaroid.processing <=> wire["polaroid"].open

\* C16: in both pages, after any sequence of drops, mode selections, prompt
\* edits, submissions, answers (success or failure) and resets, the result and
\* the error are never both set, and processing is true exactly while the
\* posted request is open.
C16_ResultXorErrorAndProcessing == C16_Flex /\ C16_Polaroid

\* C16 witness: the single-photo page shows an error after a failed request
\* whose file was replaced meanwhile, and the two-photo page shows a result;
\* neither is processing.
C16_Witness ==
  /\ flex.error # Null /\ ~flex.processing
  /\ wire["flex"].sent # Null /\ wire["flex"].sent.file # flex.selectedFile
  /\ polaroid.resultUrl # Null /\ ~polaroid.processing

\* C17 (as claimed): in both pages a displayed result was produced from the
\* inputs held in state: the selected file(s), and for the single-photo page
\* the selected mode, are the ones posted in the request that produced it.
C17_ResultMatchesInputs ==
  /\ flex.result # Null =>
       wire["flex"].sent = [file |-> flex.selectedFile, mode |-> flex.mode]
  /\ polaroid.resultUrl # Null =>
       /\ wire["polaroid"].sent.photo1 = polaroid.photo1.file
       /\ wire["polaroid"].sent.photo2 = polaroid.photo2.file


====
